---- MODULE Spec2Model ----
(***************************************************************************)
(* cobald.decorator.hint_limiter: HintLimiter, a pool decorator that       *)
(* clamps writes of `demand` to [0, maximum], where maximum is             *)
(* target.supply + hint and hint is received over a TCP listener.          *)
(*                                                                         *)
(* Numbers.  Python ints and floats are modelled as fixed-point integers   *)
(* counting tenths: 25 stands for 2.5, -40 for -4.  A written value        *)
(* carries its kind (int or float) because _clamp_demand coerces its       *)
(* result with type(value)(...).  Time is counted in whole units; one      *)
(* unit is long compared with the run time of a synchronous code section.  *)
(*                                                                         *)
(* Two specifications.  Spec is the service as the source shows it: the    *)
(* connection handlers are asyncio tasks on one event loop, each           *)
(* suspended only at `await reader.read()`, and the synchronous demand     *)
(* setter runs between them.  SpecThreads is the same object when the      *)
(* demand setter is called from a thread other than the event loop's:      *)
(* its statements interleave with those of a handler.                      *)
(***************************************************************************)
EXTENDS Integers, Sequences, FiniteSets, TLC

\* Last instant of the clock.
MaxTime == 3

\* Values of the constructor's `period`.
Periods == {1, 2}

\* Connection slots of the listener.
Conns == {1, 2}

\* Values target.supply takes (tenths): 2, 2.5.
Supplies == {20, 25}

\* Payloads a peer sends, as byte strings:
\*   "3\n"   "-4.5"   "abc"   ""   b"\xff"
Payloads ==
    { <<51, 10>>, <<45, 52, 46, 53>>, <<97, 98, 99>>, <<>>, <<255>> }

\* Values written to demand (tenths) with their Python type:
\*   -1 (int), 4 (int), 4.0 (float)
Values ==
    { [v |-> -10, int |-> TRUE], [v |-> 40, int |-> TRUE], [v |-> 40, int |-> FALSE] }

VARIABLES
    supply,     \* target.supply
    tdemand,    \* target.demand
    tint,       \* TRUE iff target.demand holds a Python int
    hint,       \* self.hint
    period,     \* self.period
    updated,    \* self._updated
    maximum,    \* self.maximum
    now,        \* time.time()
    conn,       \* per connection: position of its _handle_hint task and its payload
    running,    \* connection whose handler body holds the event loop, 0 if none
    pre,        \* per connection: (hint, _updated, maximum) when its body started
    wpc,        \* position of a demand write running in another thread
    wval,       \* the value that write was called with
    built,      \* the supply __init__ read, while no handler has run; -1 afterwards
    last        \* the operation that completed last; for a handler, whether the
                \* hint was stale when it ran; for a write, whether it repeats
                \* the write just before it

vars ==
    << supply, tdemand, tint, hint, period, updated, maximum, now,
       conn, running, pre, wpc, wval, built, last >>

----------------------------------------------------------------------------
(* Arithmetic *)

Min(a, b) == IF b < a THEN b ELSE a

Max(a, b) == IF b > a THEN b ELSE a

\* round(x) in place of int(x): to the nearest integer, halves upward.
IntOf_Round(x) == ((x + 5) \div 10) * 10

\* int(x) of a float x: truncation toward zero.
IntOf(x) == IF x >= 0 THEN (x \div 10) * 10 ELSE -(((-x) \div 10) * 10)

\* type(value)(x)
Coerce(int, x) == IF int THEN IntOf(x) ELSE x

----------------------------------------------------------------------------
(* bytes.decode() and float(str) *)

\* bytes.decode(): UTF-8; of the bytes used here only those below 128 decode.
Decodable(bytes) == \A i \in 1..Len(bytes) : bytes[i] < 128

IsSpace(b) == b \in {9, 10, 11, 12, 13, 32}

IsDigit(b) == b \in 48..57

RECURSIVE LStrip(_)
LStrip(s) == IF s # <<>> /\ IsSpace(Head(s)) THEN LStrip(Tail(s)) ELSE s

RECURSIVE RStrip(_)
RStrip(s) ==
    IF s # <<>> /\ IsSpace(s[Len(s)]) THEN RStrip(SubSeq(s, 1, Len(s) - 1)) ELSE s

Strip(s) == RStrip(LStrip(s))

\* The text after an optional sign.
Unsigned(s) == IF s # <<>> /\ Head(s) \in {43, 45} THEN Tail(s) ELSE s

Negative(s) == s # <<>> /\ Head(s) = 45

\* Position of the first "." in s, Len(s) + 1 if there is none.
DotPos(s) ==
    IF \E i \in 1..Len(s) : s[i] = 46
    THEN CHOOSE i \in 1..Len(s) : s[i] = 46 /\ \A j \in 1..(i - 1) : s[j] # 46
    ELSE Len(s) + 1

IntPart(s) == SubSeq(s, 1, DotPos(s) - 1)

FracPart(s) == SubSeq(s, DotPos(s) + 1, Len(s))

\* float() accepts [sign] digits [. [digits]] and [sign] . digits
\* (exponents, "inf", "nan" and "_" do not occur in Payloads).
IsFloat(text) ==
    LET u == Unsigned(Strip(text)) IN
        /\ \A i \in 1..Len(IntPart(u)) : IsDigit(IntPart(u)[i])
        /\ \A i \in 1..Len(FracPart(u)) : IsDigit(FracPart(u)[i])
        /\ Len(IntPart(u)) + Len(FracPart(u)) > 0

RECURSIVE DigitsVal(_)
DigitsVal(s) ==
    IF s = <<>> THEN 0 ELSE 10 * DigitsVal(SubSeq(s, 1, Len(s) - 1)) + (s[Len(s)] - 48)

\* float(text) in tenths; Payloads carry at most one fractional digit.
FloatOf(text) ==
    LET s == Strip(text)
        u == Unsigned(s)
        f == FracPart(u)
        m == 10 * DigitsVal(IntPart(u)) + (IF f = <<>> THEN 0 ELSE f[1] - 48)
    IN  IF Negative(s) THEN -m ELSE m

\* float(hint.decode()) of line 73: the value, or the exception raised.
ParseHint(bytes) ==
    IF ~Decodable(bytes) THEN [ok |-> FALSE, exc |-> "UnicodeDecodeError", val |-> 0]
    ELSE IF ~IsFloat(bytes) THEN [ok |-> FALSE, exc |-> "ValueError", val |-> 0]
    ELSE [ok |-> TRUE, exc |-> "none", val |-> FloatOf(bytes)]

----------------------------------------------------------------------------
(* HintLimiter *)

\* set_max: self.maximum = self.target.supply + self.hint
set_max(s, h) == s + h

\* The condition of _check_freshness written with >= instead of >.
Stale_NonStrict(t, u, p) == t - u >= p

\* The condition of _check_freshness: time.time() - self._updated > self.period
Stale(t, u, p) == t - u > p

\* _check_freshness forgetting line 42 (hint is not reset).
check_freshness_NoReset(h, m, s, t, u, p) ==
    IF Stale(t, u, p)
    THEN [hint |-> h, maximum |-> set_max(s, h)]
    ELSE [hint |-> h, maximum |-> m]

\* _check_freshness forgetting line 43 (maximum is not recomputed).
check_freshness_NoSetMax(h, m, s, t, u, p) ==
    IF Stale(t, u, p)
    THEN [hint |-> 0, maximum |-> m]
    ELSE [hint |-> h, maximum |-> m]

\* _check_freshness calling set_max outside the `if` (on every check).
check_freshness_Always(h, m, s, t, u, p) ==
    IF Stale(t, u, p)
    THEN [hint |-> 0, maximum |-> set_max(s, 0)]
    ELSE [hint |-> h, maximum |-> set_max(s, h)]

\* _check_freshness without the `if` (hint is reset on every write).
check_freshness_Unconditional(h, m, s, t, u, p) ==
    [hint |-> 0, maximum |-> set_max(s, 0)]

\* _check_freshness whose `if` is never taken (the comparison reversed).
check_freshness_Never(h, m, s, t, u, p) == [hint |-> h, maximum |-> m]

\* _check_freshness: hint and maximum as it leaves them.
check_freshness(h, m, s, t, u, p) ==
    IF Stale(t, u, p)
    THEN [hint |-> 0, maximum |-> set_max(s, 0)]
    ELSE [hint |-> h, maximum |-> m]

\* _clamp_demand without the lower bound: type(value)(min(self.maximum, value))
clamp_demand_NoFloor(m, v, int) == Coerce(int, Min(m, v))

\* _clamp_demand without the upper bound: type(value)(max(0, value))
clamp_demand_NoCeiling(m, v, int) == Coerce(int, Max(0, v))

\* _clamp_demand: type(value)(max(0, min(self.maximum, value)))
clamp_demand(m, v, int) == Coerce(int, Max(0, Min(m, v)))

\* _handle_hint with line 78 missing (the timestamp is not set).
handle_hint_NoStamp(bytes, h, u, m, s, t) ==
    LET r == ParseHint(bytes) IN
        IF r.ok
        THEN [hint |-> r.val, updated |-> u, maximum |-> set_max(s, r.val), err |-> FALSE]
        ELSE IF Decodable(bytes)
        THEN [hint |-> 0, updated |-> u, maximum |-> set_max(s, 0), err |-> FALSE]
        ELSE [hint |-> 0, updated |-> u, maximum |-> m, err |-> TRUE]

\* _handle_hint calling set_max before it assigns slf.hint.
handle_hint_EarlySetMax(bytes, h, u, m, s, t) ==
    LET r == ParseHint(bytes) IN
        IF r.ok
        THEN [hint |-> r.val, updated |-> t, maximum |-> set_max(s, h), err |-> FALSE]
        ELSE IF Decodable(bytes)
        THEN [hint |-> 0, updated |-> u, maximum |-> set_max(s, h), err |-> FALSE]
        ELSE [hint |-> 0, updated |-> u, maximum |-> m, err |-> TRUE]

\* The body of _handle_hint after read() returned `bytes`, run to its end:
\* the fields as it leaves them, and whether it ended by raising.
\* UnicodeDecodeError is a ValueError, so the except clause is entered for
\* undecodable bytes too; there line 76 calls hint.decode() again, which
\* raises out of the handler before line 80.
handle_hint(bytes, h, u, m, s, t) ==
    LET r == ParseHint(bytes) IN
        IF r.ok
        THEN [hint |-> r.val, updated |-> t, maximum |-> set_max(s, r.val), err |-> FALSE]
        ELSE IF Decodable(bytes)
        THEN [hint |-> 0, updated |-> u, maximum |-> set_max(s, 0), err |-> FALSE]
        ELSE [hint |-> 0, updated |-> u, maximum |-> m, err |-> TRUE]

NoValue == [v |-> 0, int |-> FALSE]

Idle == [pc |-> "idle", payload |-> <<>>]

NoPre == [hint |-> 0, updated |-> 0, maximum |-> 0]

Other == [op |-> "other", v |-> 0, c |-> 0, stale |-> FALSE, again |-> FALSE]

Reading == {c \in Conns : conn[c].pc = "reading"}

\* __init__ without its call of set_max() on line 60.
Init_NoSetMax ==
    /\ supply \in Supplies
    /\ tdemand = 0
    /\ tint = TRUE
    /\ hint = 0
    /\ period \in Periods
    /\ now = 0
    /\ updated = now
    /\ maximum = 0
    /\ conn = [c \in Conns |-> Idle]
    /\ running = 0
    /\ pre = [c \in Conns |-> NoPre]
    /\ wpc = "idle"
    /\ wval = NoValue
    /\ built = supply
    /\ last = [Other EXCEPT !.op = "init"]

\* __init__ with a pool whose supply is `supply`, at time 0.
Init ==
    /\ supply \in Supplies
    /\ tdemand = 0
    /\ tint = TRUE
    /\ hint = 0
    /\ period \in Periods
    /\ now = 0
    /\ updated = now
    /\ maximum = set_max(supply, hint)
    /\ conn = [c \in Conns |-> Idle]
    /\ running = 0
    /\ pre = [c \in Conns |-> NoPre]
    /\ wpc = "idle"
    /\ wval = NoValue
    /\ built = supply
    /\ last = [Other EXCEPT !.op = "init"]

\* The clock advancing with a timer that resets a stale hint when it expires.
Tick_Timer ==
    /\ now < MaxTime
    /\ running = 0
    /\ wpc = "idle"
    /\ now' = now + 1
    /\ hint' = IF now + 1 - updated > period THEN 0 ELSE hint
    /\ maximum' = IF now + 1 - updated > period THEN set_max(supply, 0) ELSE maximum
    /\ last' = Other
    /\ UNCHANGED << supply, tdemand, tint, period, updated,
                    conn, running, pre, wpc, wval, built >>

\* The clock advances while no synchronous section is mid-execution.
Tick ==
    /\ now < MaxTime
    /\ running = 0
    /\ wpc = "idle"
    /\ now' = now + 1
    /\ last' = Other
    /\ UNCHANGED << supply, tdemand, tint, hint, period, updated, maximum,
                    conn, running, pre, wpc, wval, built >>

\* The pool's supply changes (the pool is not part of this component).
SupplyChange(s) ==
    /\ s # supply
    /\ supply' = s
    /\ last' = Other
    /\ UNCHANGED << tdemand, tint, hint, period, updated, maximum, now,
                    conn, running, pre, wpc, wval, built >>

\* A peer connects and sends payload p: start_server starts a _handle_hint
\* task, which suspends in `await reader.read()` until the peer closes.
\* The tasks that ended are remembered until the listener has been idle.
Connect(c, p) ==
    /\ conn[c].pc # "reading"
    /\ conn' = [d \in Conns |->
                  IF d = c THEN [pc |-> "reading", payload |-> p]
                  ELSE IF Reading = {} THEN Idle ELSE conn[d]]
    /\ last' = Other
    /\ UNCHANGED << supply, tdemand, tint, hint, period, updated, maximum, now,
                    running, pre, wpc, wval, built >>

\* read() returns and the rest of _handle_hint runs without suspending.
HandleHint(c) ==
    /\ conn[c].pc = "reading"
    /\ running = 0
    /\ wpc = "idle"
    /\ LET r == handle_hint(conn[c].payload, hint, updated, maximum, supply, now) IN
        /\ hint' = r.hint
        /\ updated' = r.updated
        /\ maximum' = r.maximum
        /\ conn' = [conn EXCEPT ![c].pc = IF r.err THEN "failed" ELSE "done"]
    /\ last' = [Other EXCEPT !.op = "hint", !.c = c,
                              !.stale = Stale(now, updated, period)]
    /\ built' = -1
    /\ UNCHANGED << supply, tdemand, tint, period, now, running, pre, wpc, wval >>

\* demand.setter that also stamps the hint fresh.
SetDemand_Stamps(val) ==
    /\ running = 0
    /\ wpc = "idle"
    /\ LET f == check_freshness(hint, maximum, supply, now, updated, period) IN
        /\ hint' = f.hint
        /\ maximum' = f.maximum
        /\ tdemand' = clamp_demand(f.maximum, val.v, val.int)
        /\ tint' = val.int
    /\ updated' = now
    /\ last' = [Other EXCEPT !.op = "write", !.v = val.v,
                              !.again = (last.op = "write" /\ last.v = val.v /\ tint = val.int)]
    /\ UNCHANGED << supply, period, now, conn, running, pre, wpc, wval, built >>

\* demand.setter, lines 32-35, called on the event loop's thread.
SetDemand(val) ==
    /\ running = 0
    /\ wpc = "idle"
    /\ LET f == check_freshness(hint, maximum, supply, now, updated, period) IN
        /\ hint' = f.hint
        /\ maximum' = f.maximum
        /\ tdemand' = clamp_demand(f.maximum, val.v, val.int)
        /\ tint' = val.int
    /\ last' = [Other EXCEPT !.op = "write", !.v = val.v,
                              !.again = (last.op = "write" /\ last.v = val.v /\ tint = val.int)]
    /\ UNCHANGED << supply, period, updated, now, conn, running, pre, wpc, wval, built >>

\* The caller writes back what it read from demand: pool.demand = pool.demand.
WriteBack == SetDemand([v |-> tdemand, int |-> tint])

\* demand getter that runs the freshness check the setter runs.
GetDemand_Checked ==
    /\ LET f == check_freshness(hint, maximum, supply, now, updated, period) IN
        /\ hint' = f.hint
        /\ maximum' = f.maximum
    /\ last' = [Other EXCEPT !.op = "read", !.v = tdemand]
    /\ UNCHANGED << supply, tdemand, tint, period, updated, now,
                    conn, running, pre, wpc, wval, built >>

\* demand getter, lines 28-30: returns self.target.demand.
GetDemand ==
    /\ last' = [Other EXCEPT !.op = "read", !.v = tdemand]
    /\ UNCHANGED << supply, tdemand, tint, hint, period, updated, maximum, now,
                    conn, running, pre, wpc, wval, built >>

Next ==
    \/ Tick
    \/ \E s \in Supplies : SupplyChange(s)
    \/ \E c \in Conns, p \in Payloads : Connect(c, p)
    \/ \E c \in Conns : HandleHint(c)
    \/ \E val \in Values : SetDemand(val)
    \/ WriteBack
    \/ GetDemand

Spec == Init /\ [][Next]_vars

----------------------------------------------------------------------------
(* The demand setter called from a thread other than the event loop's.     *)
(* The handler bodies still run one at a time on the loop (`running`), but *)
(* the statements of a write interleave with the statements of a body.     *)

\* The fields a hint update writes.
Triple == [hint |-> hint, updated |-> updated, maximum |-> maximum]

\* Line 71: read() returns and the body of the handler takes the loop.
Resume(c) ==
    /\ conn[c].pc = "reading"
    /\ running = 0
    /\ running' = c
    /\ conn' = [conn EXCEPT ![c].pc = "l73"]
    /\ pre' = [pre EXCEPT ![c] = Triple]
    /\ last' = Other
    /\ built' = -1
    /\ UNCHANGED << supply, tdemand, tint, hint, period, updated, maximum, now, wpc, wval >>

\* Line 73: slf.hint = float(hint.decode()), or the jump to the except clause.
Line73(c) ==
    /\ conn[c].pc = "l73"
    /\ LET r == ParseHint(conn[c].payload) IN
        /\ hint' = IF r.ok THEN r.val ELSE hint
        /\ conn' = [conn EXCEPT ![c].pc = IF r.ok THEN "l78" ELSE "l75"]
    /\ last' = Other
    /\ UNCHANGED << supply, tdemand, tint, period, updated, maximum, now,
                    running, pre, wpc, wval, built >>

\* Lines 75-76: slf.hint = 0, then the warning, whose hint.decode() raises
\* out of the handler when the payload does not decode.
Line75(c) ==
    /\ conn[c].pc = "l75"
    /\ hint' = 0
    /\ IF Decodable(conn[c].payload)
       THEN /\ conn' = [conn EXCEPT ![c].pc = "l80"]
            /\ running' = running
            /\ pre' = pre
            /\ last' = Other
       ELSE /\ conn' = [conn EXCEPT ![c].pc = "failed"]
            /\ running' = 0
            /\ pre' = [pre EXCEPT ![c] = NoPre]
            /\ last' = [Other EXCEPT !.op = "hint", !.c = c]
    /\ UNCHANGED << supply, tdemand, tint, period, updated, maximum, now, wpc, wval, built >>

\* Line 78: slf._updated = time.time()
Line78(c) ==
    /\ conn[c].pc = "l78"
    /\ updated' = now
    /\ conn' = [conn EXCEPT ![c].pc = "l80"]
    /\ last' = Other
    /\ UNCHANGED << supply, tdemand, tint, hint, period, maximum, now,
                    running, pre, wpc, wval, built >>

\* Line 80: slf.set_max(); the handler returns.
Line80(c) ==
    /\ conn[c].pc = "l80"
    /\ maximum' = set_max(supply, hint)
    /\ conn' = [conn EXCEPT ![c].pc = "done"]
    /\ running' = 0
    /\ pre' = [pre EXCEPT ![c] = NoPre]
    /\ last' = [Other EXCEPT !.op = "hint", !.c = c]
    /\ UNCHANGED << supply, tdemand, tint, hint, period, updated, now, wpc, wval, built >>

\* A peer connects while no other connection is in flight.
Accept(c, p) ==
    /\ running = 0
    /\ Reading = {}
    /\ Connect(c, p)

\* Another thread assigns val to demand: the setter is entered.
WriteCall(val) ==
    /\ wpc = "idle"
    /\ wpc' = "l41"
    /\ wval' = val
    /\ last' = Other
    /\ UNCHANGED << supply, tdemand, tint, hint, period, updated, maximum, now,
                    conn, running, pre, built >>

\* Line 41: if time.time() - self._updated > self.period
Write41 ==
    /\ wpc = "l41"
    /\ wpc' = IF Stale(now, updated, period) THEN "l42" ELSE "l35"
    /\ last' = Other
    /\ UNCHANGED << supply, tdemand, tint, hint, period, updated, maximum, now,
                    conn, running, pre, wval, built >>

\* Line 42: self.hint = 0
Write42 ==
    /\ wpc = "l42"
    /\ hint' = 0
    /\ wpc' = "l43"
    /\ last' = Other
    /\ UNCHANGED << supply, tdemand, tint, period, updated, maximum, now,
                    conn, running, pre, wval, built >>

\* Line 43: self.set_max()
Write43 ==
    /\ wpc = "l43"
    /\ maximum' = set_max(supply, hint)
    /\ wpc' = "l35"
    /\ last' = Other
    /\ UNCHANGED << supply, tdemand, tint, hint, period, updated, now,
                    conn, running, pre, wval, built >>

\* Line 35: self.target.demand = self._clamp_demand(value); the setter returns.
Write35 ==
    /\ wpc = "l35"
    /\ tdemand' = clamp_demand(maximum, wval.v, wval.int)
    /\ tint' = wval.int
    /\ wpc' = "idle"
    /\ wval' = NoValue
    /\ last' = [Other EXCEPT !.op = "write", !.v = wval.v]
    /\ UNCHANGED << supply, hint, period, updated, maximum, now, conn, running, pre, built >>

NextThreads ==
    \/ Tick
    \/ \E s \in Supplies : SupplyChange(s)
    \/ \E c \in Conns, p \in Payloads : Accept(c, p)
    \/ \E c \in Conns : Resume(c)
    \/ \E c \in Conns : Line73(c)
    \/ \E c \in Conns : Line75(c)
    \/ \E c \in Conns : Line78(c)
    \/ \E c \in Conns : Line80(c)
    \/ \E val \in Values : WriteCall(val)
    \/ Write41
    \/ Write42
    \/ Write43
    \/ Write35

SpecThreads == Init /\ [][NextThreads]_vars

----------------------------------------------------------------------------
(* Properties of the demand write and of the connection handler (Spec) *)

WriteDone == last.op = "write"

HintDone == last.op = "hint"

\* The payload of the handler that completed last.
LastPayload == conn[last.c].payload

IsStale == Stale(now, updated, period)

\* max(0, min(m, v)) with no conversion.
PlainClamp(m, v) == Max(0, Min(m, v))

\* C1 (as claimed): after every write of v, target.demand equals
\* max(0, min(maximum, v)), maximum being the value the freshness check left.
C1_ClampExact == WriteDone => tdemand = PlainClamp(maximum, last.v)

\* C1 (amended): every write can be made in every state (it raises nothing),
\* and afterwards target.demand equals max(0, min(maximum, v)) converted to
\* the type of v: itself for a float v, truncated toward zero for an int v.
C1_ClampCoerced ==
    /\ \A val \in Values : ENABLED SetDemand(val)
    /\ WriteDone =>
        tdemand = IF tint
                  THEN IntOf(PlainClamp(maximum, last.v))
                  ELSE PlainClamp(maximum, last.v)

\* C1 witness: the int 4 written against maximum 2.5 was stored as 2.
C1_Witness ==
    WriteDone /\ tint /\ last.v = 40 /\ maximum = 25 /\ tdemand = 20

\* C2 (as claimed): a write made more than period after the last parsed hint
\* leaves hint = 0 and maximum = supply, and a value above supply is stored
\* as supply.
C2_StaleWrite ==
    WriteDone /\ IsStale =>
        /\ hint = 0
        /\ maximum = supply
        /\ (last.v > supply => tdemand = supply)

\* C2 (amended): such a write leaves hint = 0 and maximum = supply, and a
\* value above supply is stored as max(0, supply) converted to the type of
\* the written value.
C2_StaleWriteCoerced ==
    WriteDone /\ IsStale =>
        /\ hint = 0
        /\ maximum = supply
        /\ (last.v > supply => tdemand = Coerce(tint, Max(0, supply)))

\* C2 witness: after a hint of 3 went stale, the float 4.0 written against
\* supply 2.5 was stored as 2.5.
C2_Witness ==
    /\ WriteDone /\ IsStale /\ updated > 0
    /\ last.v = 40 /\ ~tint /\ supply = 25 /\ tdemand = 25 /\ hint = 0

\* C3: when a handler completes for a payload that parses as the number h,
\* hint = h, the update timestamp is the current time, and maximum is the
\* pool's supply plus h ("3\n" is 3 and "-4.5" is -4.5).
C3_ValidHint ==
    HintDone /\ ParseHint(LastPayload).ok =>
        /\ hint = ParseHint(LastPayload).val
        /\ LastPayload = <<51, 10>> => hint = 30
        /\ LastPayload = <<45, 52, 46, 53>> => hint = -45
        /\ updated = now
        /\ maximum = supply + hint
        /\ conn[last.c].pc = "done"

\* C3 witness: the hint "-4.5" was handled at a time after construction with
\* supply 2, leaving maximum -2.5.
C3_Witness ==
    /\ HintDone /\ LastPayload = <<45, 52, 46, 53>>
    /\ now > 0 /\ supply = 20 /\ maximum = -25

\* C4 (as claimed): a handler given a payload that does not parse as a number
\* leaves hint = 0 and maximum = supply + 0 and does not touch the update
\* timestamp.
C4_MalformedHint ==
    [][\A c \in Conns :
          HandleHint(c) /\ ~ParseHint(conn[c].payload).ok =>
              hint' = 0 /\ maximum' = supply' + 0 /\ updated' = updated]_vars

\* C5 (as claimed): after any write, 0 <= target.demand <= maximum.
C5_WithinBounds == WriteDone => 0 <= tdemand /\ tdemand <= maximum

\* C5 (amended): after any write, 0 <= target.demand <= max(0, maximum):
\* target.demand is at most maximum when maximum is not negative, and is 0
\* when maximum is negative.
C5_WithinFlooredBounds ==
    WriteDone => 0 <= tdemand /\ tdemand <= Max(0, maximum)

\* C5 witness: a write made while a negative hint holds maximum below zero
\* stored 0.
C5_Witness == WriteDone /\ hint < 0 /\ maximum < 0 /\ tdemand = 0

MidUpdate(c) == conn[c].pc \in {"l78", "l80"} /\ running = c

\* The fields as the completed update of c leaves them.
Post(c) ==
    LET r == ParseHint(conn[c].payload) IN
        [hint |-> r.val,
         updated |-> IF r.ok THEN now ELSE pre[c].updated,
         maximum |-> set_max(supply, r.val)]

\* Some handler's update is half done: the fields are neither those from
\* before its update nor those its completed update leaves.
Torn == \E c \in Conns : MidUpdate(c) /\ Triple \notin {pre[c], Post(c)}

\* C7 (as claimed): every statement of a demand write that reads hint, the
\* update timestamp or maximum (lines 41, 43, 35) finds them either all as
\* they were before a concurrent hint update or all as that update leaves
\* them.
C7_NoTornRead ==
    [][(wpc \in {"l41", "l43", "l35"} /\ wpc' # wpc) => (~Torn)]_vars

\* The valid hints delivered by the handlers that have completed.
DoneHints ==
    { ParseHint(conn[c].payload).val :
        c \in {d \in Conns : conn[d].pc = "done" /\ ParseHint(conn[d].payload).ok} }

\* All connections were in flight together, each delivered a valid hint, the
\* hints are pairwise distinct, and the last handler has just completed.
AllDelivered ==
    /\ HintDone
    /\ \A c \in Conns : conn[c].pc = "done" /\ ParseHint(conn[c].payload).ok
    /\ Cardinality(DoneHints) = Cardinality(Conns)

\* C8: once all concurrent handlers, each with a distinct valid hint, have
\* completed, exactly one sent hint h has hint = h and maximum = supply + h.
C8_OneHintWins ==
    AllDelivered =>
        Cardinality({h \in DoneHints : hint = h /\ maximum = supply + h}) = 1

\* C8 witness: two handlers were suspended together with "3\n" and "-4.5";
\* both completed and the stored hint is 3.
C8_Witness == AllDelivered /\ hint = 30 /\ DoneHints = {30, -45}

\* C9 (as claimed): for every payload the handler ends without an error, and
\* for every payload that does not parse it ends with hint = 0 and maximum
\* recomputed to target.supply.
C9_ParseFailureRecovered ==
    HintDone =>
        /\ conn[last.c].pc # "failed"
        /\ ~ParseHint(LastPayload).ok => hint = 0 /\ maximum = supply

\* C10 (as claimed): after every write to demand, fresh or stale,
\* maximum = target.supply + hint.
C10_RecomputedOnWrite == WriteDone => maximum = supply + hint

\* C10 (amended): a write that finds the hint stale leaves hint = 0 and
\* maximum = target.supply + hint, supply as at that write; a write that
\* finds the hint fresh leaves hint and maximum as they were.
C10_RecomputedWhenStale ==
    [][\A val \in Values :
          SetDemand(val) =>
              IF IsStale
              THEN hint' = 0 /\ maximum' = supply' + hint'
              ELSE hint' = hint /\ maximum' = maximum]_vars

\* C10 witness: a write found the hint fresh after supply had changed, and
\* maximum is not supply + hint.
C10_Witness == WriteDone /\ ~IsStale /\ maximum # supply + hint

----------------------------------------------------------------------------
(* Frame, lifecycle and timing properties (Spec) *)

\* More than period has elapsed since the update timestamp.
Expired == now - updated > period

\* C11: while no more than period has elapsed since the update timestamp, no
\* step other than the completion of a connection handler (no demand write
\* or read, supply change, clock advance or new connection) changes maximum
\* or hint.
C11_ConstantUntilHint ==
    [][(last'.op # "hint" /\ ~Expired) => (maximum' = maximum /\ hint' = hint)]_vars

\* C11 witness: the hint 3 was received with supply 2; supply then became
\* 2.5 and a write was made within period: maximum is still 5.
C11_Witness ==
    WriteDone /\ ~Expired /\ hint = 30 /\ supply = 25 /\ maximum = 50

\* C12: a step that takes the clamp from stale to fresh is the completion of
\* a handler whose payload parsed; every handler whose payload parsed leaves
\* the clamp fresh; every write made while stale leaves hint = 0.
C12_Lifecycle ==
    [][/\ (Expired /\ ~Expired') =>
            (last'.op = "hint" /\ ParseHint(conn'[last'.c].payload).ok)
       /\ (last'.op = "hint" /\ ParseHint(conn'[last'.c].payload).ok) => ~Expired'
       /\ (Expired /\ last'.op = "write") => hint' = 0]_vars

\* C12 witness: the clamp was stale when the payload "3\n" was handled and
\* is fresh now.
C12_Witness ==
    HintDone /\ last.stale /\ LastPayload = <<51, 10>> /\ ~Expired /\ hint = 30

\* C13: a read of demand returns target.demand and changes none of hint,
\* maximum, the update timestamp and target.demand.
C13_ReadOnly ==
    [][last'.op = "read" =>
          /\ last'.v = tdemand
          /\ hint' = hint /\ maximum' = maximum /\ updated' = updated
          /\ tdemand' = tdemand /\ tint' = tint]_vars

\* C13 witness: a read made while a hint of -4.5 is stale and target.demand
\* is above maximum returned target.demand and left the hint in place.
C13_Witness ==
    /\ last.op = "read" /\ last.v = tdemand
    /\ Expired /\ hint = -45 /\ tdemand > maximum

\* C14 (as claimed): maximum is supply + hint as of its last recomputation,
\* and hint never changes without maximum being recomputed in the same
\* operation: every step either leaves hint and maximum as they were or
\* leaves maximum = supply + hint.
C14_MaximumTracksHint ==
    [][(hint' = hint /\ maximum' = maximum) \/ maximum' = supply' + hint']_vars

\* C15: right after construction hint = 0, maximum is the pool's supply, the
\* update timestamp is the construction time and the clamp is fresh; a write
\* made within period of construction, no connection having been handled,
\* is clamped against the supply the constructor read.
C15_Constructed ==
    /\ last.op = "init" =>
        hint = 0 /\ maximum = supply /\ updated = now /\ ~Expired
    /\ (WriteDone /\ built # -1 /\ ~Expired) =>
        /\ hint = 0
        /\ maximum = built
        /\ tdemand = Coerce(tint, PlainClamp(built, last.v))
        /\ 0 <= tdemand /\ tdemand <= built

\* C15 witness: constructed with supply 2; supply became 2.5 and, one period
\* after construction with no connection handled, the write of 4 stored 2.
C15_Witness ==
    /\ WriteDone /\ built = 20 /\ supply = 25 /\ now = period
    /\ last.v = 40 /\ tdemand = 20

\* C16: a write made when now - updated is exactly period leaves hint and
\* maximum as they were and clamps against that maximum; a write made when
\* now - updated exceeds period leaves hint = 0.
C16_StrictComparison ==
    [][last'.op = "write" =>
          /\ now - updated = period =>
                /\ hint' = hint /\ maximum' = maximum
                /\ tdemand' = Coerce(tint', PlainClamp(maximum, last'.v))
          /\ now - updated > period => hint' = 0]_vars

\* C16 witness: exactly one period after the hint 3 was received with supply
\* 2, the write of 4 was stored as 4, above supply.
C16_Witness ==
    /\ WriteDone /\ now - updated = period /\ updated > 0
    /\ hint = 30 /\ supply = 20 /\ maximum = 50 /\ last.v = 40 /\ tdemand = 40

\* C17: a clock advance changes none of hint, maximum and target.demand;
\* they change only in a step that completes a demand write or a connection
\* handler.
C17_Lazy ==
    [][/\ now' # now => (hint' = hint /\ maximum' = maximum /\ tdemand' = tdemand)
       /\ (hint' # hint \/ maximum' # maximum \/ tdemand' # tdemand) =>
            last'.op \in {"write", "hint"}]_vars

\* C17 witness: the hint 3 went stale two periods ago or more and no write
\* has been made since: hint and maximum still hold the hinted values.
C17_Witness ==
    /\ last.op = "other" /\ now - updated > period + 1
    /\ hint = 30 /\ maximum = supply + 30

\* C18: a write stores a value of the type of the written value; an int v
\* written against a non-integer maximum m with 0 < m < v stores m truncated
\* to the integer below it, which is an integer, at least 0 and at most m.
C18_IntegerResult ==
    [][\A val \in Values :
          SetDemand(val) =>
              /\ tint' = val.int
              /\ (val.int /\ maximum' % 10 # 0 /\ 0 < maximum' /\ maximum' < val.v) =>
                    /\ tdemand' = (maximum' \div 10) * 10
                    /\ tdemand' % 10 = 0
                    /\ 0 <= tdemand' /\ tdemand' <= maximum']_vars

\* C18 witness: the hint 3 with supply 2.5 gives maximum 5.5; supply aside,
\* the int 4 is below it, and once the hint is stale maximum is 2.5 and the
\* int 4 is stored as the int 2.
C18_Witness ==
    /\ WriteDone /\ tint /\ Expired /\ updated > 0
    /\ maximum = 25 /\ last.v = 40 /\ tdemand = 20

\* C20: a demand write changes neither _updated nor period; a write of the
\* value (and type) written by the step before it leaves hint, maximum and
\* target.demand as that write left them; a write of the value the step
\* before it stored in target.demand stores that value again.
C20_Idempotent ==
    [][last'.op = "write" =>
          /\ updated' = updated /\ period' = period
          /\ (last.op = "write" /\ last'.v = last.v /\ tint' = tint) =>
                (hint' = hint /\ maximum' = maximum /\ tdemand' = tdemand)
          /\ (last.op = "write" /\ last'.v = tdemand /\ tint' = tint) =>
                tdemand' = tdemand]_vars

\* C20 witness: the int 4 was written twice in a row after the hint 3 went
\* stale with supply 2.5; the int 2 is stored and the timestamp is the hint's.
C20_Witness ==
    /\ WriteDone /\ last.again /\ tint /\ last.v = 40
    /\ updated > 0 /\ now - updated > period
    /\ hint = 0 /\ maximum = 25 /\ tdemand = 20

(***************************************************************************)
(* Drain mode is reached (SpecLive).  The hypotheses of the property are   *)
(* the environment of this specification: the clock keeps advancing up to  *)
(* MaxTime, demand writes keep being made, and a connection handler is     *)
(* resumed with a payload that parses only while the clock bound still     *)
(* lets that hint go stale, so that from some point on no parsed hint      *)
(* arrives.                                                                *)
(***************************************************************************)

\* The last parsed hint arrives early enough to expire before MaxTime.
LastHint(c) == ParseHint(conn[c].payload).ok => now + period < MaxTime

NextLive ==
    \/ Tick
    \/ \E s \in Supplies : SupplyChange(s)
    \/ \E c \in Conns, p \in Payloads : Connect(c, p)
    \/ \E c \in Conns : LastHint(c) /\ HandleHint(c)
    \/ \E val \in Values : SetDemand(val)

SpecLive ==
    /\ Init
    /\ [][NextLive]_vars
    /\ WF_vars(Tick)
    /\ WF_vars(\E val \in Values : SetDemand(val))

\* C19: with no parsed hint from some point on, the clock advancing and
\* demand writes being made, eventually a demand write finds the hint stale
\* and leaves hint = 0, and from some point on every state that follows a
\* demand write is stale with hint = 0 and maximum = supply.
C19_DrainReached ==
    /\ <>(WriteDone /\ now - updated > period /\ hint = 0)
    /\ <>[](WriteDone => (now - updated > period /\ hint = 0 /\ maximum = supply))

\* C19 witness: the hint 3 was received, the clock ran to MaxTime and a
\* demand write then left hint = 0 and maximum = supply.
C19_Witness ==
    /\ WriteDone /\ updated > 0 /\ now = MaxTime /\ now - updated > period
    /\ hint = 0 /\ maximum = supply /\ supply = 20 /\ tdemand = 20

====
